---------------------------- MODULE Spec2Model ----------------------------
(***************************************************************************)
(* A model of notebooks/01-08-Overscan.ipynb.                              *)
(*                                                                         *)
(* The notebook's code does three things with a calibration image: it      *)
(* reads the image from disk into a CCDData (a 2D array of pixel counts    *)
(* tagged with a unit), it shows the array's shape, and it plots the       *)
(* cross-section  <frame>.data.mean(axis=0)  of the image.  Every          *)
(* statement of a plot cell works on one frame alone, so a behaviour of    *)
(* the model follows one frame through the cells.  The cells of a          *)
(* notebook can be run in any order and any number of times; a cell that   *)
(* uses a name the kernel has not bound yet ends with a NameError.         *)
(*                                                                         *)
(* The notebook holds no code that locates where light leakage ends or     *)
(* that judges whether the overscan is usable: both are left to the        *)
(* reader of the plot (the markdown cells).  Nothing of that kind is       *)
(* modelled here.                                                          *)
(*                                                                         *)
(* The mean of integer counts is kept as an exact fraction in lowest       *)
(* terms (numpy returns the float64 nearest to it).                        *)
(***************************************************************************)
EXTENDS Integers, Sequences, FiniteSets

\* Bounds of the model: the largest image, and the largest pixel count.
MaxRows == 2
MaxCols == 2
MaxCount == 1

VARIABLES
    disk,     \* the 2D pixel array stored in the image file
    frame,    \* the CCDData the kernel has bound, or NoFrame
    out       \* the output of the cell that ran last

vars == <<disk, frame, out>>

\* The kernel has not bound the frame's name yet.
NoFrame == [loaded |-> FALSE]

\* The unit= argument of CCDData.read: 'count' for the LFC, 'adu' for the Aspen.
Units == {"count", "adu"}

\* The axis argument of ndarray.mean for a 2D array; the notebook passes 0.
Axes == {0, 1}

\* The images a file can hold: rows of pixel counts, at least one row and
\* one column.
Images ==
    UNION {[1..r -> [1..c -> 0..MaxCount]] : r \in 1..MaxRows, c \in 1..MaxCols}

\* ndarray.shape of a 2D array: (rows, columns).
shape(a) == <<Len(a), Len(a[1])>>

RECURSIVE SumSeq(_)
\* The sum of a sequence of counts, added left to right.
SumSeq(s) == IF s = <<>> THEN 0 ELSE s[1] + SumSeq(Tail(s))

\* add.reduce along an axis: axis 0 adds down the rows and leaves one total
\* per column, axis 1 adds along the columns and leaves one total per row.
add_reduce(a, axis) ==
    IF axis = 0
    THEN [j \in 1..shape(a)[2] |-> SumSeq([i \in 1..shape(a)[1] |-> a[i][j]])]
    ELSE [i \in 1..shape(a)[1] |-> SumSeq(a[i])]

RECURSIVE GCD(_, _)
GCD(m, n) == IF n = 0 THEN m ELSE GCD(n, m % n)

\* The quotient total / count as a fraction in lowest terms.
true_divide(total, count) ==
    LET g == GCD(total, count)
    IN  [num |-> total \div g, den |-> count \div g]

\* A plausible slip: the totals are divided by the length of the result
\* instead of the number of elements that were added up.
mean_divides_by_result_length(a, axis) ==
    LET totals == add_reduce(a, axis)
    IN  [k \in DOMAIN totals |-> true_divide(totals[k], Len(totals))]

\* ndarray.mean(axis=...): the totals along the axis, each divided by the
\* number of elements added up, shape[axis].
mean(a, axis) ==
    LET totals == add_reduce(a, axis)
        count == shape(a)[axis + 1]
    IN  [k \in DOMAIN totals |-> true_divide(totals[k], count)]

TypeOK ==
    /\ disk \in Images
    /\ frame = NoFrame \/ (frame.loaded /\ frame.data \in Images /\ frame.unit \in Units)
    /\ out.kind \in {"none", "NameError", "shape", "figure"}

Init ==
    /\ disk \in Images
    /\ frame = NoFrame
    /\ out = [kind |-> "none"]

\* The cell  <frame> = CCDData.read(path, unit=...) .
ReadFrame ==
    /\ \E u \in Units : frame' = [loaded |-> TRUE, data |-> disk, unit |-> u]
    /\ out' = [kind |-> "none"]
    /\ UNCHANGED disk

\* The cell  <frame>.shape .
ShowShape ==
    /\ out' = IF frame = NoFrame
              THEN [kind |-> "NameError"]
              ELSE [kind |-> "shape", value |-> shape(frame.data)]
    /\ UNCHANGED <<disk, frame>>

\* The cell  plt.plot(<frame>.data.mean(axis=...)) : the figure's line
\* is the profile of the frame.
PlotProfile ==
    /\ \E axis \in Axes :
         out' = IF frame = NoFrame
                THEN [kind |-> "NameError"]
                ELSE [kind |-> "figure", axis |-> axis,
                      ydata |-> mean(frame.data, axis)]
    /\ UNCHANGED <<disk, frame>>

Next == ReadFrame \/ ShowShape \/ PlotProfile

Spec == Init /\ [][Next]_vars

-----------------------------------------------------------------------------
\* The number of times count v stands in the sequence s.
Occurrences(s, v) == Cardinality({k \in DOMAIN s : s[k] = v})

RECURSIVE Weighted(_, _)
\* The total of s counted value by value: each count up to v times the
\* number of its occurrences.
Weighted(s, v) ==
    IF v = 0 THEN 0 ELSE v * Occurrences(s, v) + Weighted(s, v - 1)

\* The pixels of line i of the profiled axis: column i of the image when
\* the rows are collapsed (axis 0), row i when the columns are (axis 1).
LineOf(a, axis, i) ==
    IF axis = 0 THEN [r \in 1..Len(a) |-> a[r][i]] ELSE a[i]

\* C9: a plotted profile has one entry per column (per row) of the frame it
\* was computed from, and entry i is the mean of the pixel counts of column
\* (row) i over the other axis: a positive denominator in lowest terms,
\* and entry i times the number of pixels of the line equals their total.
ProfileIsLineMeans ==
    out.kind = "figure" =>
        LET a == frame.data
            extent == IF out.axis = 0 THEN Len(a[1]) ELSE Len(a)
            across == IF out.axis = 0 THEN Len(a) ELSE Len(a[1])
        IN  /\ Len(out.ydata) = extent
            /\ \A i \in 1..extent :
                 LET m == out.ydata[i]
                     line == LineOf(a, out.axis, i)
                 IN  /\ m.den > 0
                     /\ m.num * across = m.den * Weighted(line, MaxCount)
                     /\ \A d \in 2..m.den : ~(m.num % d = 0 /\ m.den % d = 0)

\* A profile of a frame that is not square has been plotted, and one of its
\* entries is not a whole number of counts.
ProfilePlottedOfOblongFrame ==
    /\ out.kind = "figure"
    /\ Len(frame.data) # Len(frame.data[1])
    /\ \E i \in DOMAIN out.ydata : out.ydata[i].den > 1

=============================================================================
